---- MODULE Spec2Model ----
(***************************************************************************)
(* Flight simulator core: Aircraft (src/aircraft.py), MissionProfile       *)
(* (src/mission.py) and the FlightSimulator driver with its collision      *)
(* check (src/main.py), over the World queries of src/world.py.            *)
(*                                                                         *)
(* The program computes in Python floats; the model computes in integers   *)
(* with these units:                                                       *)
(*   time            ms        (dt = clock.tick(FPS) / 1000.0, whole ms)   *)
(*   length          cm        velocity  cm/s     acceleration  cm/s^2     *)
(*   angle           mrad      throttle  1/1000   fuel          g          *)
(*   mass            kg        coefficients (CL, CD, sin, cos)  1/1000     *)
(* Divisions round toward zero.  The one quantity whose range exceeds     *)
(* 32-bit integers, the drag impulse, is carried as a mantissa and a       *)
(* binary exponent (FMul, FDiv below).                                     *)
(***************************************************************************)
EXTENDS Integers, Sequences, FiniteSets, TLC

VARIABLES
    position,               \* Aircraft.position  [x, y (altitude), z]
    velocity,               \* Aircraft.velocity  [x, y, z]
    rotation,               \* Aircraft.rotation  [x (pitch), y (yaw), z (roll)]
    throttle,               \* Aircraft.throttle
    fuel_mass,              \* Aircraft.fuel_mass
    total_range,            \* Aircraft.total_range
    mission_time,           \* Aircraft.mission_time
    mission_data,           \* Aircraft.mission_data  (sample lists and phase)
    current_segment_index,  \* MissionProfile.current_segment_index
    mission_complete,       \* MissionProfile.mission_complete
    total_time,             \* MissionProfile.total_time
    total_distance,         \* MissionProfile.total_distance
    segments,               \* completed / progress / turn_time of each segment
    profile_data,           \* MissionProfile.profile_data
    paused,                 \* FlightSimulator.paused
    crashed,                \* FlightSimulator.crashed
    warning_timer,          \* FlightSimulator.warning_timer
    collision_warning,      \* FlightSimulator.collision_warning
    ticks,                  \* integrated ticks since construction or reset
    key_ticks,              \* of these, the ticks with a key held down
    last,                   \* what the last integrated tick read and derived
    call                    \* the last call of a constructor or formula on its own

vars == << position, velocity, rotation, throttle, fuel_mass, total_range,
           mission_time, mission_data, current_segment_index,
           mission_complete, total_time, total_distance, segments,
           profile_data, paused, crashed, warning_timer, collision_warning,
           ticks, key_ticks, last, call >>

-----------------------------------------------------------------------------
(* Bounds of the model *)

\* Integrated ticks in one run (from construction or reset to the next reset).
MaxTicks == 10

\* Ticks of one run in which the keyboard is not idle.
MaxKeyTicks == 1

\* Frame times in ms: clock.tick returns the elapsed wall-clock time, which
\* has no upper limit (a stalled or suspended process).
DtSet == {30000, 1000000}

\* Keyboard states read by pygame.key.get_pressed() in a tick.
KeyChoices == { {}, {"w", "a", "LSHIFT"}, {"s", "d", "q", "LCTRL"},
                {"e", "SPACE"} }

-----------------------------------------------------------------------------
(* Integer arithmetic *)

Abs(a) == IF a < 0 THEN -a ELSE a

Min(a, b) == IF a < b THEN a ELSE b

Max(a, b) == IF a > b THEN a ELSE b

\* a / b rounded toward zero, b > 0.
TDiv(a, b) == IF a >= 0 THEN a \div b ELSE -((-a) \div b)

\* a / 2^k rounded toward zero, k >= 0; 2^31 exceeds every |a| here.
Halve(a, k) == IF k >= 31 THEN 0 ELSE TDiv(a, 2 ^ k)

\* a * b / c rounded toward zero without forming a * b; b >= 0, c > 0.
MulDiv(a, b, c) ==
    LET m == Abs(a)
        r == (m \div c) * b + ((m % c) * b) \div c
    IN  IF a < 0 THEN -r ELSE r

RECURSIVE SqrtIter(_, _)
SqrtIter(n, x) ==
    LET y == (x + n \div x) \div 2
    IN  IF y >= x THEN x ELSE SqrtIter(n, y)

\* floor(sqrt(n))
ISqrt(n) == IF n < 2 THEN n ELSE SqrtIter(n, Min(n, 46340))

\* ceiling(sqrt(n))
CSqrt(n) == LET r == ISqrt(n) IN IF r * r = n THEN r ELSE r + 1

(* Non-negative reals as m * 2^e with m < 2^15 *)

RECURSIVE FNorm(_, _)
FNorm(m, e) ==
    IF m >= 32768 THEN FNorm(m \div 2, e + 1)
    ELSE IF m > 0 /\ m < 16384 THEN FNorm(m * 2, e - 1)
    ELSE [m |-> m, e |-> e]

F(n) == FNorm(n, 0)

FMul(a, b) == FNorm(a.m * b.m, a.e + b.e)

\* a + b for a.e >= b.e: b is below the precision of a beyond 15 bits.
FAddOrdered(a, b) ==
    IF b.m = 0 \/ a.e - b.e > 15 THEN a
    ELSE FNorm(a.m * 2 ^ (a.e - b.e) + b.m, b.e)

FAdd(a, b) ==
    IF a.m = 0 THEN b
    ELSE IF a.e >= b.e THEN FAddOrdered(a, b) ELSE FAddOrdered(b, a)

FDiv(a, b) == FNorm((a.m * 32768) \div b.m, a.e - b.e - 15)

\* floor(a / 2^k) for a float a, as an integer
FShift(a, k) ==
    IF a.e - k >= 0 THEN a.m * 2 ^ (a.e - k) ELSE Halve(a.m, k - a.e)

-----------------------------------------------------------------------------
(* math.sin, math.cos, math.exp *)

\* The angle a (mrad) reduced to [0, 6283]: 2*pi = 6283.185307 mrad.
ReduceAngle(a) ==
    LET a1 == a % 6283185
        k  == a1 \div 6283
        r  == (a1 % 6283) - (k * 185307) \div 1000000
    IN  r % 6283

\* sin on [0, pi] by Bhaskara's rational approximation
\* 16 x (pi - x) / (5 pi^2 - 4 x (pi - x)), in 1/1000.
SinHalf(x) ==
    LET p == x * (3142 - x)
    IN  (1000 * (p \div 4)) \div ((49348022 - 4 * p) \div 64)

Sin(a) ==
    LET r == ReduceAngle(a)
    IN  IF r <= 3142 THEN SinHalf(r) ELSE -SinHalf(Min(r - 3142, 3142))

Cos(a) == Sin(a + 1571)

\* exp(-h / 8000) for an altitude h in cm, in 1/10000: the fourth power of the
\* Taylor polynomial of exp(-t), t = h / 32000.
ExpDecay(h) ==
    LET t  == ((h \div 100) * 5) \div 16
        t2 == (t * t) \div 10000
        t3 == (t2 * t) \div 10000
        t4 == (t3 * t) \div 10000
        e1 == 10000 - t + (t2 \div 2) - (t3 \div 6) + (t4 \div 24)
        e2 == (e1 * e1) \div 10000
    IN  (e2 * e2) \div 10000

-----------------------------------------------------------------------------
(* Aircraft: src/aircraft.py *)

\* Aircraft.__init__: the built-in aircraft data and limits.
mass == 50000
wing_area == 150
max_thrust == 200000
fuel_capacity == 15000000
fuel_flow_rate == 2
CL0 == 200
CL_alpha == 5
CD0 == 25
K == 40
max_speed == 25000
service_ceiling == 1200000

Vec(x, y, z) == [x |-> x, y |-> y, z |-> z]

\* pygame.math.Vector3.length
Length(v) == ISqrt(v.x * v.x + v.y * v.y + v.z * v.z)

\* The empty sample history.
NoMissionData ==
    [time |-> << >>, altitude |-> << >>, speed |-> << >>, fuel |-> << >>,
     range |-> << >>, phase |-> "GROUND"]

\* The aircraft after __init__ and after reset.
NewAircraft ==
    [position     |-> Vec(0, 50000, 0),
     velocity     |-> Vec(0, 0, 10000),
     rotation     |-> Vec(0, 0, 0),
     throttle     |-> 500,
     fuel_mass    |-> (fuel_capacity * 8) \div 10,
     total_range  |-> 0,
     mission_time |-> 0,
     mission_data |-> NoMissionData]

\* kg
get_total_mass(ac) == mass + ac.fuel_mass \div 1000

\* N
get_thrust(ac) ==
    LET y     == ac.position.y
        full  == (max_thrust * ac.throttle) \div 1000
        alt   == IF y < 2000000
                 THEN MulDiv(full, 20000 - y \div 100, 20000)
                 ELSE full \div 2
        speed == Length(ac.velocity)
    IN  IF speed < 100000 THEN MulDiv(alt, 10000 - speed \div 10, 10000)
        ELSE 0

\* 1.225 * exp(-y / 8000), in g/m^3
AirDensity(y) == (1225 * ExpDecay(y)) \div 10000

\* 0.5 * rho * V^2 * S, in N
DynamicForce(ac) ==
    LET V == Length(ac.velocity)
    IN  (((AirDensity(ac.position.y) * ((V * V) \div 10000)) \div 20)
            * wing_area) \div 100

\* The lift coefficient used for the lift: clamped to [-1.5, 1.5].
LiftCL(alpha) == Max(-1500, Min(1500, CL0 + CL_alpha * alpha))

\* N
get_lift(ac, alpha) ==
    IF Length(ac.velocity) < 10 THEN 0
    ELSE LET CL == LiftCL(alpha)
             L  == MulDiv(DynamicForce(ac), Abs(CL), 1000)
         IN  IF CL < 0 THEN -L ELSE L

\* The lift coefficient used for the drag: not clamped.
DragCL(alpha) == CL0 + CL_alpha * alpha

\* CD0 + K * CL^2, in 1/1000, as a float
DragCD(alpha) ==
    LET c == F(Abs(DragCL(alpha)))
    IN  FAdd(F(CD0), FDiv(FMul(F(K), FMul(c, c)), F(1000000)))

\* mN, as a float
get_drag(ac, alpha) ==
    IF Length(ac.velocity) < 10 THEN F(0)
    ELSE FMul(F(DynamicForce(ac)), DragCD(alpha))

\* Variant of update_fuel: the consumption is added.
update_fuel_adding(ac, dt) ==
    [ac EXCEPT !.fuel_mass =
        Max(0, @ + MulDiv(fuel_flow_rate * ac.throttle, dt, 1000))]

\* update_fuel: the fuel after dt at the current throttle and altitude.
update_fuel(ac, dt) ==
    LET y    == ac.position.y
        full == MulDiv(fuel_flow_rate * ac.throttle, dt, 1000)
        used == IF y < 1500000
                THEN full - MulDiv(full, y \div 100, 30000)
                ELSE full \div 2
    IN  [ac EXCEPT !.fuel_mass = Max(0, ac.fuel_mass - used)]

\* The smallest k with big / 2^k <= 26000: three squares then add up in range.
RECURSIVE Shrink(_, _)
Shrink(big, k) == IF big \div 2 ^ k <= 26000 THEN k ELSE Shrink(big, k + 1)

\* update_physics, "speed limit", for the velocity c * 2^k cm/s, |c| <= 26000,
\* where w is that velocity if k = 0: a speed above max_speed is renormalised
\* to max_speed.
Renormalise(w, c, k) ==
    LET sq  == c.x * c.x + c.y * c.y + c.z * c.z
        len == CSqrt(sq)
    IN  IF k = 0 /\ sq <= max_speed * max_speed THEN w
        ELSE Vec(TDiv(c.x * max_speed, len), TDiv(c.y * max_speed, len),
                 TDiv(c.z * max_speed, len))

\* The velocity w * 2^k as one of components within 26000, k2 bits coarser.
Rescale(w, k, k2) ==
    Renormalise(w, Vec(Halve(w.x, k2), Halve(w.y, k2), Halve(w.z, k2)), k + k2)

\* Variant of LimitSpeed: each component is limited to max_speed on its own.
LimitSpeed_per_axis(a) ==
    LET lim(c) == IF Abs(c) > Halve(max_speed, a.k)
                  THEN IF c < 0 THEN -max_speed ELSE max_speed
                  ELSE c * 2 ^ a.k
    IN  Vec(lim(a.w.x), lim(a.w.y), lim(a.w.z))

\* update_physics, "speed limit", of the velocity a.w in units of 2^a.k cm/s.
LimitSpeed(a) ==
    Rescale(a.w, a.k, Shrink(Max(Abs(a.w.x), Max(Abs(a.w.y), Abs(a.w.z))), 0))

\* Variant of LimitAltitude: no altitude limit.
LimitAltitude_off(ac) == ac

\* Variant of LimitAltitude: the floor holds the altitude but leaves the
\* velocity.
LimitAltitude_falling(ac) ==
    [ac EXCEPT !.position.y = Max(1000, Min(service_ceiling, @))]

\* update_physics, "altitude limit": the floor at 10 m stops a descent, the
\* ceiling only holds the altitude.
LimitAltitude(ac) ==
    LET low == IF ac.position.y < 1000
               THEN [ac EXCEPT !.position.y = 1000,
                               !.velocity.y = IF ac.velocity.y < 0 THEN 0
                                              ELSE ac.velocity.y]
               ELSE ac
    IN  IF low.position.y > service_ceiling
        THEN [low EXCEPT !.position.y = service_ceiling]
        ELSE low

\* update_physics, "angle of attack": the pitch, when moving.
Alpha(ac) == IF Length(ac.velocity) > 10 THEN ac.rotation.x ELSE 0

\* update_physics, "forces": thrust and lift in N, drag in mN.
Forces(ac, alpha) ==
    [thrust |-> get_thrust(ac), lift |-> get_lift(ac, alpha),
     drag |-> get_drag(ac, alpha)]

\* update_physics, thrust direction: pitch, then yaw; no roll.  In 1/1000.
thrust_dir(rot) ==
    LET cos_pitch == Cos(rot.x)
        sin_pitch == Sin(rot.x)
    IN  Vec(TDiv(cos_pitch * Sin(rot.y), 1000), sin_pitch,
            TDiv(cos_pitch * Cos(rot.y), 1000))

\* (thrust_accel + lift_accel + gravity) * dt, in cm/s, for the aircraft of
\* mass m.
Impulse(f, dir, m, dt) ==
    LET ta         == TDiv(f.thrust * 100, m)
        lift_accel == TDiv(f.lift * 100, m)
        gravity    == -981
    IN  Vec(MulDiv(TDiv(dir.x * ta, 1000), dt, 1000),
            MulDiv(TDiv(dir.y * ta, 1000) + lift_accel + gravity, dt, 1000),
            MulDiv(TDiv(dir.z * ta, 1000), dt, 1000))

\* |drag_accel| * dt in cm/s; no drag below 0.1 m/s.
DragImpulse(drag, speed, m, dt) ==
    IF speed > 10 THEN FDiv(FMul(drag, F(dt)), F(m * 10000)) ELSE F(0)

\* The unit 2^k cm/s in which a drag impulse J is below 2^26.
DragScale(J) == IF J.m = 0 THEN 0 ELSE Max(0, J.e - 11)

\* One component of "velocity += acceleration * dt" in units of 2^k cm/s: the
\* component c with the impulse o of the other forces, less its share of the
\* drag impulse Ju, which is along -velocity.normalize().
Dragged(c, o, Ju, k, speed) ==
    Halve(c + o, k)
    + (IF speed > 10
       THEN IF c < 0 THEN MulDiv(Ju, -c, speed) ELSE -MulDiv(Ju, c, speed)
       ELSE 0)

\* velocity + o less the drag impulse J, in units of 2^k cm/s.
Sum(v, speed, o, J, k) ==
    [w |-> Vec(Dragged(v.x, o.x, FShift(J, k), k, speed),
               Dragged(v.y, o.y, FShift(J, k), k, speed),
               Dragged(v.z, o.z, FShift(J, k), k, speed)),
     k |-> k]

\* The velocity under the forces f for dt.
Accelerated(v, speed, o, J) == Sum(v, speed, o, J, DragScale(J))

\* update_physics up to "velocity += acceleration * dt": the new velocity w in
\* units of 2^k cm/s (k = 0 unless the drag impulse exceeds 2^26 cm/s).
Accelerate(ac, f, dt) ==
    Accelerated(ac.velocity, Length(ac.velocity),
                Impulse(f, thrust_dir(ac.rotation), get_total_mass(ac), dt),
                DragImpulse(f.drag, Length(ac.velocity), get_total_mass(ac),
                            dt))

\* position + velocity * dt
Advance(p, v, dt) ==
    Vec(p.x + MulDiv(v.x, dt, 1000), p.y + MulDiv(v.y, dt, 1000),
        p.z + MulDiv(v.z, dt, 1000))

\* The aircraft at velocity v after dt.
Move(ac, v, dt) ==
    [ac EXCEPT !.velocity = v, !.position = Advance(ac.position, v, dt)]

update_physics(ac, dt) ==
    LimitAltitude(
        Move(ac, LimitSpeed(Accelerate(ac, Forces(ac, Alpha(ac)), dt)), dt))

\* Variant of ApplyKeys: throttle-up is limited to 2.0.
ApplyKeys_wide(ac, dt, keys) ==
    [ac EXCEPT !.throttle = IF "LSHIFT" \in keys THEN Min(2000, @ + dt)
                            ELSE @]

\* Variant of ApplyKeys: the roll keys have no limit.
ApplyKeys_free_roll(ac, dt, keys) ==
    [ac EXCEPT !.rotation.z =
                   IF "a" \in keys /\ "d" \notin keys THEN @ - 2 * dt
                   ELSE IF "d" \in keys /\ "a" \notin keys THEN @ + 2 * dt
                   ELSE @]

\* Variant of ApplyKeys: the roll keys turn twice as fast.
ApplyKeys_fast_roll(ac, dt, keys) ==
    [ac EXCEPT !.rotation.z =
                   IF "a" \in keys /\ "d" \notin keys THEN Max(-1047, @ - 4 * dt)
                   ELSE IF "d" \in keys /\ "a" \notin keys THEN Min(1047, @ + 4 * dt)
                   ELSE @]

\* update, "control inputs": the keys applied to attitude and throttle.
ApplyKeys(ac, dt, keys) ==
    LET pitch_rate == (3 * dt) \div 2
        roll_rate  == 2 * dt
        yaw_rate   == dt
        p1 == IF "w" \in keys THEN Min(524, ac.rotation.x + pitch_rate)
              ELSE ac.rotation.x
        p2 == IF "s" \in keys THEN Max(-524, p1 - pitch_rate) ELSE p1
        r1 == IF "a" \in keys THEN Max(-1047, ac.rotation.z - roll_rate)
              ELSE ac.rotation.z
        r2 == IF "d" \in keys THEN Min(1047, r1 + roll_rate) ELSE r1
        y1 == IF "q" \in keys THEN ac.rotation.y - yaw_rate
              ELSE ac.rotation.y
        y2 == IF "e" \in keys THEN y1 + yaw_rate ELSE y1
        t1 == IF "LSHIFT" \in keys THEN Min(1000, ac.throttle + dt)
              ELSE ac.throttle
        t2 == IF "LCTRL" \in keys THEN Max(0, t1 - dt) ELSE t1
        level == "SPACE" \in keys
    IN  [ac EXCEPT !.rotation = Vec(IF level THEN TDiv(p2 * 19, 20) ELSE p2,
                                    y2,
                                    IF level THEN TDiv(r2 * 19, 20) ELSE r2),
                   !.throttle = t2]

\* update, first statement: without fuel the throttle is closed.
FuelCutoff(ac) == IF ac.fuel_mass <= 0 THEN [ac EXCEPT !.throttle = 0] ELSE ac

\* update_mission_data: time, range and one sample per whole second.
update_mission_data(ac, dt) ==
    LET t   == ac.mission_time + dt
        hs  == ISqrt(ac.velocity.x * ac.velocity.x
                     + ac.velocity.z * ac.velocity.z)
        rng == ac.total_range + MulDiv(hs, dt, 1000)
        md  == ac.mission_data
    IN  [ac EXCEPT
           !.mission_time = t,
           !.total_range  = rng,
           !.mission_data =
               IF t \div 1000 > Len(md.time)
               THEN [md EXCEPT !.time     = Append(@, t),
                               !.altitude = Append(@, ac.position.y),
                               !.speed    = Append(@, Length(ac.velocity)),
                               !.fuel     = Append(@, ac.fuel_mass),
                               !.range    = Append(@, rng)]
               ELSE md]

\* The aircraft as the physics of this update sees it: fuel cut-off, then keys.
Controlled(ac, dt, keys) == ApplyKeys(FuelCutoff(ac), dt, keys)

\* Aircraft.update
AircraftUpdate(ac, dt, keys) ==
    update_mission_data(
        update_fuel(update_physics(Controlled(ac, dt, keys), dt), dt), dt)

\* Variant of reset: the range flown is kept.
AircraftReset_keeping_range(ac) ==
    [ac EXCEPT !.position     = Vec(0, 50000, 0),
               !.velocity     = Vec(0, 0, 10000),
               !.rotation     = Vec(0, 0, 0),
               !.throttle     = 500,
               !.fuel_mass    = (fuel_capacity * 8) \div 10,
               !.mission_time = 0,
               !.mission_data = NoMissionData]

\* Aircraft.reset: the configuration is kept, every other field is assigned
\* anew.
AircraftReset(ac) ==
    [ac EXCEPT !.position     = Vec(0, 50000, 0),
               !.velocity     = Vec(0, 0, 10000),
               !.rotation     = Vec(0, 0, 0),
               !.throttle     = 500,
               !.fuel_mass    = (fuel_capacity * 8) \div 10,
               !.total_range  = 0,
               !.mission_time = 0,
               !.mission_data = NoMissionData]

-----------------------------------------------------------------------------
(* MissionProfile: src/mission.py *)

\* create_default_mission: the six segments in order.  An argument that is
\* not given (None) is 0; the only test of one, "if segment.distance", reads
\* None and 0 alike.
SegmentDefs ==
    << [name |-> "WUTO",    target_altitude |-> 10000,  target_speed |-> 8000,
        duration |-> 60000,  distance |-> 0],
       [name |-> "CLIMB",   target_altitude |-> 500000, target_speed |-> 15000,
        duration |-> 0,      distance |-> 5000000],
       [name |-> "CRUISE",  target_altitude |-> 500000, target_speed |-> 20000,
        duration |-> 0,      distance |-> 20000000],
       [name |-> "TURN",    target_altitude |-> 500000, target_speed |-> 18000,
        duration |-> 120000, distance |-> 0],
       [name |-> "DESCENT", target_altitude |-> 50000,  target_speed |-> 15000,
        duration |-> 0,      distance |-> 4000000],
       [name |-> "LANDING", target_altitude |-> 0,      target_speed |-> 7000,
        duration |-> 0,      distance |-> 1000000] >>

NumSegments == Len(SegmentDefs)

\* MissionSegment.__init__: the fields that change.  turn_time = -1 stands
\* for a segment that has no turn_time attribute.
NewSegment == [completed |-> FALSE, progress |-> 0, turn_time |-> -1]

NoProfileData ==
    [altitude |-> << >>, range |-> << >>, fuel |-> << >>, segments |-> << >>]

\* The mission after __init__.
NewMission ==
    [current_segment_index |-> 0,
     mission_complete      |-> FALSE,
     total_time            |-> 0,
     total_distance        |-> 0,
     segments              |-> [i \in 1..NumSegments |-> NewSegment],
     profile_data          |-> NoProfileData]

\* Each execute_* maps the aircraft ac and the segment (d its definition, seg
\* its changing fields) to the pair after the call.

\* Variant of execute_wuto: full throttle from the start of the warm-up.
execute_wuto_full(ac, seg, d, dt) ==
    IF seg.progress < 30000
    THEN [ac  |-> [ac EXCEPT !.throttle = 1000],
          seg |-> [seg EXCEPT !.progress = @ + dt]]
    ELSE [ac  |-> [ac EXCEPT !.throttle = 1000],
          seg |-> IF ac.position.y >= d.target_altitude
                  THEN [seg EXCEPT !.completed = TRUE] ELSE seg]

\* Variant of execute_wuto: the altitude is looked at during the warm-up too.
execute_wuto_eager(ac, seg, d, dt) ==
    [ac  |-> [ac EXCEPT !.throttle = IF seg.progress < 30000 THEN 300 ELSE 1000],
     seg |-> [seg EXCEPT !.progress = IF seg.progress < 30000 THEN @ + dt ELSE @,
                         !.completed = @ \/ ac.position.y >= d.target_altitude]]

execute_wuto(ac, seg, d, dt) ==
    IF seg.progress < 30000
    THEN [ac  |-> [ac EXCEPT !.throttle = 300],
          seg |-> [seg EXCEPT !.progress = @ + dt]]
    ELSE [ac  |-> [ac EXCEPT !.throttle = 1000],
          seg |-> IF ac.position.y >= d.target_altitude
                  THEN [seg EXCEPT !.completed = TRUE] ELSE seg]

\* Variant of execute_climb: the pitch is set to the desired pitch at once.
execute_climb_direct(ac, seg, d, dt) ==
    IF ac.position.y < d.target_altitude
    THEN [ac  |-> [ac EXCEPT
                     !.rotation.x = Min(300, TDiv(d.target_altitude
                                                  - ac.position.y, 100)),
                     !.throttle = IF Length(ac.velocity) < d.target_speed
                                  THEN Min(1000, ac.throttle + dt \div 2)
                                  ELSE Max(500, ac.throttle - dt \div 2)],
          seg |-> seg]
    ELSE [ac  |-> [ac EXCEPT !.rotation.x = 0],
          seg |-> [seg EXCEPT !.completed = TRUE]]

execute_climb(ac, seg, d, dt) ==
    LET target_alt  == d.target_altitude
        current_alt == ac.position.y
        altitude_error == target_alt - current_alt
        desired_pitch  == Min(300, TDiv(altitude_error, 100))
        pitch_rate     == dt \div 2
        pitch == IF ac.rotation.x < desired_pitch
                 THEN ac.rotation.x + pitch_rate
                 ELSE IF ac.rotation.x > desired_pitch
                      THEN ac.rotation.x - pitch_rate
                      ELSE ac.rotation.x
        thr   == IF Length(ac.velocity) < d.target_speed
                 THEN Min(1000, ac.throttle + dt \div 2)
                 ELSE Max(500, ac.throttle - dt \div 2)
    IN  IF current_alt < target_alt
        THEN [ac  |-> [ac EXCEPT !.rotation.x = pitch, !.throttle = thr],
              seg |-> seg]
        ELSE [ac  |-> [ac EXCEPT !.rotation.x = 0],
              seg |-> [seg EXCEPT !.completed = TRUE]]

\* (target_altitude - altitude) * 0.001 rad
AltitudeHold(ac, d) == TDiv(d.target_altitude - ac.position.y, 100)

\* Variant of execute_cruise: the pitch is kept within the manual pitch range.
execute_cruise_clamped(ac, seg, d, dt) ==
    [ac  |-> [ac EXCEPT
                !.rotation.x =
                    Max(-524, Min(524, TDiv(d.target_altitude - ac.position.y, 100))),
                !.throttle =
                    IF Abs(d.target_speed - Length(ac.velocity)) > 500
                    THEN Max(300, Min(1000, ac.throttle
                             + TDiv(d.target_speed - Length(ac.velocity), 10)))
                    ELSE ac.throttle],
     seg |-> IF d.distance # 0
             THEN [seg EXCEPT !.progress = ac.total_range,
                              !.completed = @ \/ ac.total_range >= d.distance]
             ELSE seg]

\* Variant of execute_cruise: the throttle is corrected for any speed error and
\* kept within [0.3, 1.0] always.
execute_cruise_tight(ac, seg, d, dt) ==
    [ac  |-> [ac EXCEPT !.rotation.x = TDiv(d.target_altitude - ac.position.y, 100),
                        !.throttle =
                            Max(300, Min(1000, ac.throttle
                                + TDiv(d.target_speed - Length(ac.velocity), 10)))],
     seg |-> IF d.distance # 0
             THEN [seg EXCEPT !.progress = ac.total_range,
                              !.completed = @ \/ ac.total_range >= d.distance]
             ELSE seg]

execute_cruise(ac, seg, d, dt) ==
    LET speed_error == d.target_speed - Length(ac.velocity)
        throttle_adjustment == TDiv(speed_error, 10)
        thr  == IF Abs(speed_error) > 500
                THEN Max(300, Min(1000, ac.throttle + throttle_adjustment))
                ELSE ac.throttle
        seg1 == IF d.distance # 0
                THEN [seg EXCEPT !.progress = ac.total_range,
                                 !.completed =
                                     @ \/ ac.total_range >= d.distance]
                ELSE seg
    IN  [ac  |-> [ac EXCEPT !.rotation.x = AltitudeHold(ac, d),
                            !.throttle = thr],
         seg |-> seg1]

\* 9.81 * tan(bank_angle) / target_speed, in urad/s
TurnRate(bank_angle, target_speed) ==
    (981000 * ((1000 * Sin(bank_angle)) \div Cos(bank_angle)))
        \div target_speed

\* Variant of execute_turn: the turn ends only once its time has passed the
\* duration by a further tick.
execute_turn_late(ac, seg, d, dt) ==
    [ac  |-> [ac EXCEPT !.rotation =
                 Vec(TDiv(d.target_altitude - ac.position.y, 100),
                     ac.rotation.y
                       + MulDiv(TurnRate(524, d.target_speed), dt, 1000) \div 1000,
                     IF seg.turn_time >= d.duration THEN 0 ELSE 524)],
     seg |-> [seg EXCEPT !.turn_time = (IF @ = -1 THEN 0 ELSE @) + dt,
                         !.completed = @ \/ seg.turn_time >= d.duration]]

\* Variant of execute_turn: the bank is still held on the tick that ends the
\* turn.
execute_turn_banked(ac, seg, d, dt) ==
    [ac  |-> [ac EXCEPT !.rotation =
                 Vec(TDiv(d.target_altitude - ac.position.y, 100),
                     ac.rotation.y
                       + MulDiv(TurnRate(524, d.target_speed), dt, 1000) \div 1000,
                     524)],
     seg |-> [seg EXCEPT !.turn_time = (IF @ = -1 THEN 0 ELSE @) + dt,
                         !.completed =
                             @ \/ (IF seg.turn_time = -1 THEN 0
                                   ELSE seg.turn_time) + dt >= d.duration]]

execute_turn(ac, seg, d, dt) ==
    LET bank_angle == 524
        turn_time  == (IF seg.turn_time = -1 THEN 0 ELSE seg.turn_time) + dt
        turn_rate  == TurnRate(bank_angle, d.target_speed)
        yaw        == ac.rotation.y + MulDiv(turn_rate, dt, 1000) \div 1000
        done       == turn_time >= d.duration
    IN  [ac  |-> [ac EXCEPT !.rotation =
                     Vec(AltitudeHold(ac, d), yaw,
                         IF done THEN 0 ELSE bank_angle)],
         seg |-> [seg EXCEPT !.turn_time = turn_time,
                             !.completed = @ \/ done]]

execute_descent(ac, seg, d, dt) ==
    LET target_alt  == d.target_altitude
        current_alt == ac.position.y
        altitude_error == current_alt - target_alt
        desired_pitch  == -Min(200, TDiv(altitude_error, 200))
        pitch_rate     == (3 * dt) \div 10
        pitch == IF ac.rotation.x > desired_pitch
                 THEN ac.rotation.x - pitch_rate ELSE ac.rotation.x
    IN  IF current_alt > target_alt
        THEN [ac  |-> [ac EXCEPT !.rotation.x = pitch,
                                 !.throttle =
                                     Max(200, ac.throttle - (3 * dt) \div 10)],
              seg |-> seg]
        ELSE [ac  |-> [ac EXCEPT !.rotation.x = 0],
              seg |-> [seg EXCEPT !.completed = TRUE]]

\* Variant of execute_landing: the touchdown completes the segment and cuts
\* the throttle but leaves the velocity as it is.
execute_landing_rolling(ac, seg, d, dt) ==
    IF ac.position.y > 1000
    THEN [ac  |-> [ac EXCEPT !.rotation.x = -100,
                             !.throttle =
                                 IF Length(ac.velocity) > d.target_speed
                                 THEN Max(100, @ - dt \div 2) ELSE @],
          seg |-> seg]
    ELSE [ac  |-> [ac EXCEPT !.throttle = 0],
          seg |-> [seg EXCEPT !.completed = TRUE]]

execute_landing(ac, seg, d, dt) ==
    LET slowed == IF Length(ac.velocity) > d.target_speed
                  THEN [ac EXCEPT !.throttle = Max(100, @ - dt \div 2)]
                  ELSE ac
    IN  IF slowed.position.y > 1000
        THEN [ac  |-> [slowed EXCEPT !.rotation.x = -100],
              seg |-> seg]
        ELSE [ac  |-> [slowed EXCEPT !.throttle = 0,
                                     !.velocity = Vec(0, 0, 0)],
              seg |-> [seg EXCEPT !.completed = TRUE]]

\* execute_segment: the phase is noted, then the segment's policy runs.
execute_segment(ac, seg, d, dt) ==
    LET a == [ac EXCEPT !.mission_data.phase = d.name]
    IN  CASE d.name = "WUTO"    -> execute_wuto(a, seg, d, dt)
          [] d.name = "CLIMB"   -> execute_climb(a, seg, d, dt)
          [] d.name = "CRUISE"  -> execute_cruise(a, seg, d, dt)
          [] d.name = "TURN"    -> execute_turn(a, seg, d, dt)
          [] d.name = "DESCENT" -> execute_descent(a, seg, d, dt)
          [] d.name = "LANDING" -> execute_landing(a, seg, d, dt)
          [] OTHER              -> [ac |-> a, seg |-> seg]

\* Variant of record_profile_data: the sample is labelled with the segment
\* that comes next.
record_profile_data_ahead(ac, ms) ==
    LET pd == ms.profile_data
    IN  IF ms.total_time \div 1000 > Len(pd.altitude)
        THEN [ms EXCEPT !.profile_data =
                 [altitude |-> Append(pd.altitude, ac.position.y),
                  range    |-> Append(pd.range, ac.total_range),
                  fuel     |-> Append(pd.fuel, ac.fuel_mass),
                  segments |-> Append(pd.segments,
                      IF ms.current_segment_index + 1 < NumSegments
                      THEN SegmentDefs[ms.current_segment_index + 2].name
                      ELSE "COMPLETE")]]
        ELSE ms

\* record_profile_data: one sample per whole second of total_time.
record_profile_data(ac, ms) ==
    LET pd == ms.profile_data
    IN  IF ms.total_time \div 1000 > Len(pd.altitude)
        THEN [ms EXCEPT !.profile_data =
                 [altitude |-> Append(pd.altitude, ac.position.y),
                  range    |-> Append(pd.range, ac.total_range),
                  fuel     |-> Append(pd.fuel, ac.fuel_mass),
                  segments |-> Append(pd.segments,
                      IF ms.current_segment_index < NumSegments
                      THEN SegmentDefs[ms.current_segment_index + 1].name
                      ELSE "COMPLETE")]]
        ELSE ms

\* Variant of Advanced: a completed segment moves the cursor past the next one.
Advanced_twice(index, completed) == IF completed THEN index + 2 ELSE index

\* Variant of Advanced: the cursor moves on whether or not the segment completed.
Advanced_always(index, completed) == index + 1

\* The cursor after a segment check: one further when the segment completed.
Advanced(index, completed) == IF completed THEN index + 1 ELSE index

\* update, "segment completion check", after the segment ran with result r and
\* the mission record became m.
CheckCompletion(r, m) ==
    LET idx == Advanced(m.current_segment_index, r.seg.completed)
        end == r.seg.completed /\ idx >= NumSegments
    IN  [ac |-> IF end
                THEN [r.ac EXCEPT !.mission_data.phase = "COMPLETE"]
                ELSE r.ac,
         ms |-> [m EXCEPT !.current_segment_index = idx,
                          !.mission_complete = @ \/ end]]

\* Variant of Executed: a completing segment clears the flags of the segments
\* before it.
Executed_clearing(r, ms, i, dt) ==
    CheckCompletion(r,
        record_profile_data(r.ac,
            [ms EXCEPT !.segments =
                           [j \in 1..NumSegments |->
                               IF j = i THEN r.seg
                               ELSE IF j < i /\ r.seg.completed
                                    THEN [ms.segments[j] EXCEPT
                                              !.completed = FALSE]
                                    ELSE ms.segments[j]],
                       !.total_time     = @ + dt,
                       !.total_distance = r.ac.total_range]))

\* update after execute_segment returned r for the segment at seq position i.
Executed(r, ms, i, dt) ==
    CheckCompletion(r,
        record_profile_data(r.ac,
            [ms EXCEPT !.segments[i]    = r.seg,
                       !.total_time     = @ + dt,
                       !.total_distance = r.ac.total_range]))

\* Variant of MissionProfile.update: the time keeps running after the mission
\* is complete.
MissionUpdate_counting(ac, ms, dt) ==
    IF ms.mission_complete \/ ms.current_segment_index >= NumSegments
    THEN [ac |-> ac, ms |-> [ms EXCEPT !.total_time = @ + dt]]
    ELSE Executed(execute_segment(ac,
                                  ms.segments[ms.current_segment_index + 1],
                                  SegmentDefs[ms.current_segment_index + 1],
                                  dt),
                  ms, ms.current_segment_index + 1, dt)

\* MissionProfile.update
MissionUpdate(ac, ms, dt) ==
    IF ms.mission_complete \/ ms.current_segment_index >= NumSegments
    THEN [ac |-> ac, ms |-> ms]
    ELSE Executed(execute_segment(ac,
                                  ms.segments[ms.current_segment_index + 1],
                                  SegmentDefs[ms.current_segment_index + 1],
                                  dt),
                  ms, ms.current_segment_index + 1, dt)

\* Variant of reset: the segments keep their turn_time.
MissionReset_keeping_timer(ms) ==
    [ms EXCEPT !.current_segment_index = 0,
               !.mission_complete      = FALSE,
               !.total_distance        = 0,
               !.total_time            = 0,
               !.segments              =
                   [i \in DOMAIN @ |-> [@[i] EXCEPT !.completed = FALSE,
                                                    !.progress  = 0]],
               !.profile_data          = NoProfileData]

\* MissionProfile.reset: the counters, each segment's completed, progress and turn_time
\* (delattr: absent, -1), and the profile data.
MissionReset(ms) ==
    [ms EXCEPT !.current_segment_index = 0,
               !.mission_complete      = FALSE,
               !.total_distance        = 0,
               !.total_time            = 0,
               !.segments              =
                   [i \in DOMAIN @ |-> [@[i] EXCEPT !.completed = FALSE,
                                                    !.progress  = 0,
                                                    !.turn_time = -1]],
               !.profile_data          = NoProfileData]

-----------------------------------------------------------------------------
(* World: src/world.py.  The world is generated at random; what the driver *)
(* reads from it is drawn from samples that the generator can produce at   *)
(* the aircraft's place.                                                   *)

\* float('inf'): the minimum over no buildings.
Infinity == 2000000000

\* get_terrain_height at (x, z): the height map (within about 97 m of zero)
\* covers |x|, |z| < 2500 m; the mountains (up to 500 m) lie within 600 m of
\* the ring of radius 3000..5000 m; elsewhere the terrain is 0.
TerrainHeights(p) ==
    LET xm == p.x \div 100
        zm == p.z \div 100
        near == Abs(xm) <= 5600 /\ Abs(zm) <= 5600
        d2 == xm * xm + zm * zm
    IN  {0}
        \cup (IF Abs(xm) < 2500 /\ Abs(zm) < 2500 THEN {600} ELSE {})
        \cup (IF near /\ d2 > 2400 * 2400 /\ d2 < 5600 * 5600
              THEN {45000} ELSE {})

\* The minimum of check_building_collision over the buildings: every building
\* stands within |x|, |z| <= 1050 m and is at most 300 m high, so a building
\* can be at distance d only where that block is within d.
BuildingDistances(p) ==
    LET dx == Max(-105000 - p.x, Max(0, p.x - 105000))
        dy == Max(0 - p.y, Max(0, p.y - 30000))
        dz == Max(-105000 - p.z, Max(0, p.z - 105000))
    IN  {Infinity}
        \cup {d \in {800, 5000} :
                /\ dx <= d /\ dy <= d /\ dz <= d
                /\ dx * dx + dy * dy + dz * dz <= d * d}

-----------------------------------------------------------------------------
(* FlightSimulator: src/main.py *)

\* The driver's flags after __init__.
NewCollision ==
    [crashed |-> FALSE, warning_timer |-> 0, collision_warning |-> FALSE]

\* Variant of check_collisions: a crash leaves the velocity as it is.
check_collisions_rolling(ac, cs, dt, terrain_height, min_building_distance) ==
    [ac |-> ac,
     cs |-> IF ac.position.y - terrain_height < 3000
               \/ min_building_distance < 3000
            THEN [crashed |-> cs.crashed
                              \/ ac.position.y - terrain_height <= 500
                              \/ min_building_distance <= 1000,
                  warning_timer |-> cs.warning_timer + dt,
                  collision_warning |-> TRUE]
            ELSE IF ac.position.y - terrain_height < 10000
                    \/ min_building_distance < 10000
                 THEN [cs EXCEPT !.warning_timer = @ + dt,
                                 !.collision_warning = TRUE]
                 ELSE [cs EXCEPT !.warning_timer = 0,
                                 !.collision_warning = FALSE]]

\* Variant of check_collisions: the timer is kept when the warning ends.
check_collisions_sticky(ac, cs, dt, terrain_height, min_building_distance) ==
    [ac |-> ac,
     cs |-> IF ac.position.y - terrain_height < 10000
               \/ min_building_distance < 10000
            THEN [cs EXCEPT !.warning_timer = @ + dt,
                            !.collision_warning = TRUE]
            ELSE [cs EXCEPT !.collision_warning = FALSE]]

\* Variant of check_collisions: a crash only strictly inside 5 m and 10 m.
check_collisions_strict(ac, cs, dt, terrain_height, min_building_distance) ==
    LET hit  == ac.position.y - terrain_height < 500
                \/ min_building_distance < 1000
        near == ac.position.y - terrain_height < 10000
                \/ min_building_distance < 10000
    IN  [ac |-> IF hit THEN [ac EXCEPT !.velocity = Vec(0, 0, 0)] ELSE ac,
         cs |-> [crashed |-> cs.crashed \/ hit,
                 warning_timer |-> IF near THEN cs.warning_timer + dt ELSE 0,
                 collision_warning |-> near]]

\* Variant of check_collisions: a crash is raised without the warning.
check_collisions_silent(ac, cs, dt, terrain_height, min_building_distance) ==
    LET hit  == (ac.position.y - terrain_height < 3000
                 \/ min_building_distance < 3000)
                /\ (ac.position.y - terrain_height <= 500
                    \/ min_building_distance <= 1000)
        near == ac.position.y - terrain_height < 10000
                \/ min_building_distance < 10000
    IN  [ac |-> IF hit THEN [ac EXCEPT !.velocity = Vec(0, 0, 0)] ELSE ac,
         cs |-> [crashed |-> cs.crashed \/ hit,
                 warning_timer |-> IF near THEN cs.warning_timer + dt ELSE 0,
                 collision_warning |-> near /\ ~hit]]

\* check_collisions, for the terrain height and the minimum building distance
\* the world returns: the collision flags and the aircraft after the check.
check_collisions(ac, cs, dt, terrain_height, min_building_distance) ==
    LET altitude_agl == ac.position.y - terrain_height
        warning_threshold  == 10000
        critical_threshold == 3000
    IN  IF altitude_agl < critical_threshold
           \/ min_building_distance < critical_threshold
        THEN IF altitude_agl <= 500 \/ min_building_distance <= 1000
             THEN [ac |-> [ac EXCEPT !.velocity = Vec(0, 0, 0)],
                   cs |-> [crashed |-> TRUE,
                           warning_timer |-> cs.warning_timer + dt,
                           collision_warning |-> TRUE]]
             ELSE [ac |-> ac,
                   cs |-> [cs EXCEPT !.warning_timer = @ + dt,
                                     !.collision_warning = TRUE]]
        ELSE IF altitude_agl < warning_threshold
                \/ min_building_distance < warning_threshold
             THEN [ac |-> ac,
                   cs |-> [cs EXCEPT !.warning_timer = @ + dt,
                                     !.collision_warning = TRUE]]
             ELSE [ac |-> ac,
                   cs |-> [cs EXCEPT !.warning_timer = 0,
                                     !.collision_warning = FALSE]]

\* The state as the three components.
Aircraft ==
    [position |-> position, velocity |-> velocity, rotation |-> rotation,
     throttle |-> throttle, fuel_mass |-> fuel_mass,
     total_range |-> total_range, mission_time |-> mission_time,
     mission_data |-> mission_data]

Mission ==
    [current_segment_index |-> current_segment_index,
     mission_complete |-> mission_complete, total_time |-> total_time,
     total_distance |-> total_distance, segments |-> segments,
     profile_data |-> profile_data]

Collision ==
    [crashed |-> crashed, warning_timer |-> warning_timer,
     collision_warning |-> collision_warning]

\* The next state holds the components ac, ms and cs.
Becomes(ac, ms, cs) ==
    /\ position' = ac.position
    /\ velocity' = ac.velocity
    /\ rotation' = ac.rotation
    /\ throttle' = ac.throttle
    /\ fuel_mass' = ac.fuel_mass
    /\ total_range' = ac.total_range
    /\ mission_time' = ac.mission_time
    /\ mission_data' = ac.mission_data
    /\ current_segment_index' = ms.current_segment_index
    /\ mission_complete' = ms.mission_complete
    /\ total_time' = ms.total_time
    /\ total_distance' = ms.total_distance
    /\ segments' = ms.segments
    /\ profile_data' = ms.profile_data
    /\ crashed' = cs.crashed
    /\ warning_timer' = cs.warning_timer
    /\ collision_warning' = cs.collision_warning

\* The next state after the collision check returned c.
Checked(c, ms) == Becomes(c.ac, ms, c.cs)

\* Nothing integrated yet.
NoTick ==
    [dt |-> 0, keys |-> {}, fuel |-> NewAircraft.fuel_mass,
     throttle |-> NewAircraft.throttle, thrust |-> 0]

\* What an integrated tick read and derived: its dt and keys, the fuel at the
\* start of Aircraft.update, and the throttle and thrust of its physics step.
TickRecord(ac, dt, keys) ==
    LET c == Controlled(ac, dt, keys)
    IN  [dt |-> dt, keys |-> keys, fuel |-> ac.fuel_mass,
         throttle |-> c.throttle, thrust |-> get_thrust(c)]

\* Variant of Frozen: only a crash stops the update.
Frozen_crashed == crashed

\* Variant of Frozen: only a pause stops the update.
Frozen_paused == paused

\* update: does nothing while paused or crashed.
Frozen == paused \/ crashed

\* Variant of Collide: the collision check looks at the aircraft as it was
\* before the aircraft and the mission were updated.
Collide_first(m, dt) ==
    \E h \in TerrainHeights(position), b \in BuildingDistances(position) :
        Checked([ac |-> IF check_collisions(Aircraft, Collision, dt, h, b).cs.crashed
                        THEN [m.ac EXCEPT !.velocity = Vec(0, 0, 0)]
                        ELSE m.ac,
                 cs |-> check_collisions(Aircraft, Collision, dt, h, b).cs],
                m.ms)

\* update after the aircraft and the mission were updated to m: the world is
\* asked about the aircraft's place and the collision check decides.
Collide(m, dt) ==
    \E h \in TerrainHeights(m.ac.position),
       b \in BuildingDistances(m.ac.position) :
        Checked(check_collisions(m.ac, Collision, dt, h, b), m.ms)

\* FlightSimulator.update(dt) with the keys held.
Tick ==
    \E dt \in DtSet, keys \in KeyChoices :
        IF Frozen
        THEN UNCHANGED vars
        ELSE /\ ticks < MaxTicks
             /\ keys # {} => key_ticks < MaxKeyTicks
             /\ Collide(MissionUpdate(AircraftUpdate(Aircraft, dt, keys),
                                      Mission, dt), dt)
             /\ ticks' = ticks + 1
             /\ key_ticks' = IF keys # {} THEN key_ticks + 1 ELSE key_ticks
             /\ last' = TickRecord(Aircraft, dt, keys)
             /\ UNCHANGED << paused, call >>

\* Variant of KeyP: the pause key also clears the crash flag.
KeyP_clearing ==
    /\ paused' = ~paused
    /\ crashed' = FALSE
    /\ UNCHANGED << position, velocity, rotation, throttle, fuel_mass,
                    total_range, mission_time, mission_data,
                    current_segment_index, mission_complete, total_time,
                    total_distance, segments, profile_data,
                    warning_timer, collision_warning, ticks, key_ticks, last, call >>

\* handle_events, K_p
KeyP ==
    /\ paused' = ~paused
    /\ UNCHANGED << position, velocity, rotation, throttle, fuel_mass,
                    total_range, mission_time, mission_data,
                    current_segment_index, mission_complete, total_time,
                    total_distance, segments, profile_data, crashed,
                    warning_timer, collision_warning, ticks, key_ticks, last, call >>

\* reset_simulation
reset_simulation ==
    /\ Becomes(AircraftReset(Aircraft), MissionReset(Mission), NewCollision)
    /\ ticks' = 0
    /\ key_ticks' = 0
    /\ last' = NoTick
    /\ UNCHANGED << paused, call >>

\* Variant of KeyR: the key resets whether or not the aircraft has crashed.
KeyR_always == reset_simulation

\* handle_events, K_r: a reset only after a crash.
KeyR == IF crashed THEN reset_simulation ELSE UNCHANGED vars

\* No constructor or formula has been called on its own.
NoCall == [fn |-> "none", args |-> << >>, result |-> "none"]

Init ==
    /\ position = NewAircraft.position
    /\ velocity = NewAircraft.velocity
    /\ rotation = NewAircraft.rotation
    /\ throttle = NewAircraft.throttle
    /\ fuel_mass = NewAircraft.fuel_mass
    /\ total_range = NewAircraft.total_range
    /\ mission_time = NewAircraft.mission_time
    /\ mission_data = NewAircraft.mission_data
    /\ current_segment_index = NewMission.current_segment_index
    /\ mission_complete = NewMission.mission_complete
    /\ total_time = NewMission.total_time
    /\ total_distance = NewMission.total_distance
    /\ segments = NewMission.segments
    /\ profile_data = NewMission.profile_data
    /\ paused = FALSE
    /\ crashed = NewCollision.crashed
    /\ warning_timer = NewCollision.warning_timer
    /\ collision_warning = NewCollision.collision_warning
    /\ ticks = 0
    /\ key_ticks = 0
    /\ last = NoTick
    /\ call = NoCall

Next == Tick \/ KeyP \/ KeyR

Spec == Init /\ [][Next]_vars

-----------------------------------------------------------------------------
(* Aircraft.__init__ with a configuration file: src/aircraft.py *)

\* What open and json.load make of the file named: no name given, a file that
\* cannot be opened, text that is not JSON, JSON that is not an object, or an
\* object with any subset of the five keys.
FileValue ==
    [mass |-> 40000, wing_area |-> 120, max_thrust |-> 150000,
     fuel_capacity |-> 10000000, fuel_flow_rate |-> 3]

ConfigFiles ==
    {[kind |-> k, data |-> << >>] :
        k \in {"none", "missing", "invalid", "not_object"}}
    \cup {[kind |-> "object", data |-> [k \in S |-> FileValue[k]]] :
             S \in SUBSET (DOMAIN FileValue)}

\* setattr: the attributes of self with name k set to v.
SetAttr(self, k, v) ==
    [x \in DOMAIN self \cup {k} |-> IF x = k THEN v ELSE self[x]]

\* dict.get
Get(data, k, default) == IF k \in DOMAIN data THEN data[k] ELSE default

\* load_aircraft_data: open or json.load raise for a missing or invalid file
\* and data.get for a value that is not an object; the bare except prints a
\* line and returns, with no attribute assigned.
load_aircraft_data(self, file) ==
    IF file.kind = "object"
    THEN SetAttr(SetAttr(SetAttr(SetAttr(SetAttr(self,
             "mass", Get(file.data, "mass", 50000)),
             "wing_area", Get(file.data, "wing_area", 150)),
             "max_thrust", Get(file.data, "max_thrust", 200000)),
             "fuel_capacity", Get(file.data, "fuel_capacity", 15000000)),
             "fuel_flow_rate", Get(file.data, "fuel_flow_rate", 2))
    ELSE self

\* __init__, "aircraft data": from the file when one is named, else built in.
AircraftData(config_file) ==
    IF config_file.kind # "none"
    THEN load_aircraft_data(<< >>, config_file)
    ELSE [mass |-> mass, wing_area |-> wing_area, max_thrust |-> max_thrust,
          fuel_capacity |-> fuel_capacity, fuel_flow_rate |-> fuel_flow_rate]

\* __init__, "current state": reading self.fuel_capacity raises AttributeError
\* when the attribute was never assigned.
WithFuel(self) ==
    IF "fuel_capacity" \in DOMAIN self
    THEN [raised |-> "none",
          self   |-> SetAttr(self, "fuel_mass", (self.fuel_capacity * 8) \div 10)]
    ELSE [raised |-> "AttributeError", self |-> self]

\* Aircraft(config_file)
Aircraft_init(config_file) == WithFuel(AircraftData(config_file))

-----------------------------------------------------------------------------
(* PerformanceCalculator and FuelCalculator.calculate_endurance:           *)
(* src/physics.py.  A float is known by its class: "zero" (0.0), "pos" (an *)
(* ordinary positive number), "neg" (an ordinary negative one), "tiny" (a  *)
(* positive number below the ordinary ones, as cos(pi/2) = 6.1e-17),       *)
(* "huge" (one above them, as tan(pi/2) = 1.6e16) and "inf" (float('inf')).*)
(* A division by 0.0 raises: the result is "ZeroDivisionError", and so is  *)
(* every result computed from it.                                          *)

Floats == {"zero", "pos"}

\* Bank angles in mrad: level, pi/6 and pi/2.
Banks == {0, 524, 1571}

Raised(a) == a = "ZeroDivisionError"

Rank(a) == CASE a = "tiny" -> -1 [] a = "huge" -> 1 [] OTHER -> 0

Signed(n, negative) ==
    IF n < 0 THEN "tiny" ELSE IF n > 0 THEN "huge"
    ELSE IF negative THEN "neg" ELSE "pos"

\* a * b
Times(a, b) ==
    IF Raised(a) \/ Raised(b) THEN "ZeroDivisionError"
    ELSE IF a = "zero" \/ b = "zero" THEN "zero"
    ELSE Signed(Rank(a) + Rank(b), (a = "neg") # (b = "neg"))

\* a / b
Over(a, b) ==
    IF Raised(a) \/ Raised(b) \/ b = "zero" THEN "ZeroDivisionError"
    ELSE IF a = "zero" THEN "zero"
    ELSE Signed(Rank(a) - Rank(b), (a = "neg") # (b = "neg"))

\* a - b for a thrust and a drag; two ordinary numbers are taken equal
\* (steady flight).
Minus(a, b) ==
    IF a = b THEN "zero" ELSE IF a = "zero" THEN "neg" ELSE a

\* math.sqrt(a) and a ** 0.25 of a number that is not negative
Root(a) == a

\* math.tan and math.cos of a bank angle, as the float library returns them.
TanOf(bank_angle) ==
    CASE bank_angle = 0 -> "zero" [] bank_angle = 524 -> "pos"
      [] bank_angle = 1571 -> "huge"

CosOf(bank_angle) ==
    CASE bank_angle = 0 -> "pos" [] bank_angle = 524 -> "pos"
      [] bank_angle = 1571 -> "tiny"

calculate_specific_range(velocity_, fuel_flow, weight) ==
    IF fuel_flow = "pos" THEN Over(velocity_, fuel_flow) ELSE "zero"

calculate_specific_endurance(fuel_flow, weight) ==
    IF fuel_flow = "pos" THEN Over("pos", fuel_flow) ELSE "zero"

calculate_specific_excess_power(thrust, drag, weight, velocity_) ==
    IF weight = "pos"
    THEN Over(Times(Minus(thrust, drag), velocity_), weight)
    ELSE "zero"

calculate_turn_radius(velocity_, bank_angle) ==
    IF bank_angle # 0
    THEN Over(Times(velocity_, velocity_), Times("pos", TanOf(bank_angle)))
    ELSE "inf"

calculate_turn_rate(velocity_, bank_angle) ==
    IF velocity_ = "pos"
    THEN Over(Times("pos", TanOf(bank_angle)), velocity_)
    ELSE "zero"

calculate_load_factor(bank_angle) == Over("pos", CosOf(bank_angle))

calculate_stall_speed(weight, air_density, wing_area_, cl_max) ==
    IF air_density = "pos" /\ wing_area_ = "pos" /\ cl_max = "pos"
    THEN Root(Over(Times("pos", weight),
                   Times(Times(air_density, wing_area_), cl_max)))
    ELSE "zero"

calculate_best_climb_speed(weight, air_density, wing_area_, cd0, k) ==
    IF air_density = "pos" /\ wing_area_ = "pos" /\ cd0 = "pos"
    THEN Times(Root(Over(Times("pos", weight),
                         Times(air_density, wing_area_))),
               Root(Over(k, cd0)))
    ELSE "zero"

calculate_best_range_speed(weight, air_density, wing_area_, cd0, k) ==
    IF air_density = "pos" /\ wing_area_ = "pos" /\ cd0 = "pos"
    THEN Root(Over(Times("pos", weight),
                   Times(Times(air_density, wing_area_),
                         Root(Times(cd0, k)))))
    ELSE "zero"

calculate_best_endurance_speed(weight, air_density, wing_area_, cd0, k) ==
    IF air_density = "pos" /\ wing_area_ = "pos" /\ cd0 = "pos"
    THEN Root(Over(Times("pos", weight),
                   Times(Times(air_density, wing_area_),
                         Root(Times(Times("pos", cd0), k)))))
    ELSE "zero"

calculate_endurance(fuel_available, fuel_flow) ==
    IF fuel_flow = "pos" THEN Over(fuel_available, fuel_flow) ELSE "zero"

-----------------------------------------------------------------------------
(* The constructor and the formulas called on their own *)

\* The call fn(args) returned, or raised, result; the simulation stands.
Called(fn, args, result) ==
    /\ call' = [fn |-> fn, args |-> args, result |-> result]
    /\ UNCHANGED << position, velocity, rotation, throttle, fuel_mass,
                    total_range, mission_time, mission_data,
                    current_segment_index, mission_complete, total_time,
                    total_distance, segments, profile_data, paused, crashed,
                    warning_timer, collision_warning, ticks, key_ticks, last >>

Construct ==
    \E config_file \in ConfigFiles :
        Called("Aircraft", config_file, Aircraft_init(config_file))

Calculate ==
    \/ \E v \in Floats, ff \in Floats, w \in Floats :
          Called("calculate_specific_range", <<v, ff, w>>,
                 calculate_specific_range(v, ff, w))
    \/ \E ff \in Floats, w \in Floats :
          Called("calculate_specific_endurance", <<ff, w>>,
                 calculate_specific_endurance(ff, w))
    \/ \E t \in Floats, d \in Floats, w \in Floats, v \in Floats :
          Called("calculate_specific_excess_power", <<t, d, w, v>>,
                 calculate_specific_excess_power(t, d, w, v))
    \/ \E v \in Floats, b \in Banks :
          Called("calculate_turn_radius", <<v, b>>,
                 calculate_turn_radius(v, b))
    \/ \E v \in Floats, b \in Banks :
          Called("calculate_turn_rate", <<v, b>>, calculate_turn_rate(v, b))
    \/ \E b \in Banks :
          Called("calculate_load_factor", <<b>>, calculate_load_factor(b))
    \/ \E w \in Floats, rho \in Floats, s \in Floats, cl \in Floats :
          Called("calculate_stall_speed", <<w, rho, s, cl>>,
                 calculate_stall_speed(w, rho, s, cl))
    \/ \E w \in Floats, rho \in Floats, s \in Floats, c \in Floats,
          k \in Floats :
          Called("calculate_best_climb_speed", <<w, rho, s, c, k>>,
                 calculate_best_climb_speed(w, rho, s, c, k))
    \/ \E w \in Floats, rho \in Floats, s \in Floats, c \in Floats,
          k \in Floats :
          Called("calculate_best_range_speed", <<w, rho, s, c, k>>,
                 calculate_best_range_speed(w, rho, s, c, k))
    \/ \E w \in Floats, rho \in Floats, s \in Floats, c \in Floats,
          k \in Floats :
          Called("calculate_best_endurance_speed", <<w, rho, s, c, k>>,
                 calculate_best_endurance_speed(w, rho, s, c, k))
    \/ \E f \in Floats, ff \in Floats :
          Called("calculate_endurance", <<f, ff>>, calculate_endurance(f, ff))

\* The main loop keeps calling update: a tick that can integrate (not paused,
\* not crashed, ticks left) is not put off for ever.  This is weak fairness
\* of Tick, with its enabling condition written out.
LiveSpec ==
    /\ Spec
    /\ \/ []<>(Frozen \/ ticks >= MaxTicks)
       \/ []<><<ticks' = ticks + 1>>_vars

CallNext == Construct \/ Calculate

CallSpec == Init /\ [][CallNext]_vars

-----------------------------------------------------------------------------
(* The two clocks and their sample buffers at frame times of a fraction of *)
(* a second.  mission_time and total_time are Python floats: a binary64    *)
(* is held exactly, as a count of 2^-56 s in three limbs of 20 bits, the   *)
(* lowest first.                                                           *)

\* 2^20
Limb == 1048576

\* Frames of the model's clock runs.
MaxFrames == 5

\* clock.tick(FPS), in ms: frames of a fraction of a second, one second and
\* three seconds.
FrameDts == {100, 200, 700, 1000, 3000}

\* dt = clock.tick(FPS) / 1000.0: the binary64 nearest to ms / 1000.
Seconds(ms) ==
    CASE ms = 100  -> <<629146, 629145, 6553>>
      [] ms = 200  -> <<209716, 209715, 13107>>
      [] ms = 700  -> <<209712, 209715, 45875>>
      [] ms = 1000 -> <<0, 0, 65536>>
      [] ms = 3000 -> <<0, 0, 196608>>

\* The limbs n with the carries passed upward.
Carried(n) ==
    <<n[1] % Limb,
      (n[2] + n[1] \div Limb) % Limb,
      n[3] + (n[2] + n[1] \div Limb) \div Limb>>

\* The binary digits by which a value with the top limb hi exceeds 53: the
\* spacing of the binary64 values around it is 2^Spacing counts.
RECURSIVE Spacing(_)
Spacing(hi) == IF hi < 8192 THEN 0 ELSE 1 + Spacing(hi \div 2)

\* The exact sum n rounded to 53 significant digits, to nearest, ties to even.
Rounded(n) ==
    LET q    == 2 ^ Spacing(n[3])
        rem  == n[1] % q
        up   == q > 1 /\ (\/ 2 * rem > q
                          \/ 2 * rem = q /\ (n[1] \div q) % 2 = 1)
    IN  Carried(<<n[1] - rem + (IF up THEN q ELSE 0), n[2], n[3]>>)

\* float.__add__
Plus(a, b) == Rounded(Carried(<<a[1] + b[1], a[2] + b[2], a[3] + b[3]>>))

\* int(t): the whole seconds of the time t.
Whole(t) == t[3] \div 65536

\* 0.0
Zero == <<0, 0, 0>>

\* mission_time and mission_data, total_time and profile_data after __init__;
\* frames counts the updates and slow tells whether one of them had
\* dt > 1 s.
NewClocks ==
    [mission_time |-> Zero, mission_data |-> NoMissionData,
     total_time |-> Zero, profile_data |-> NoProfileData,
     frames |-> 0, slow |-> FALSE]

\* Variant of MissionDataClock: a sample is appended for every whole second
\* that has passed.
MissionDataClock_catching_up(c, dt) ==
    LET t  == Plus(c.mission_time, dt)
        md == c.mission_data
        n  == Whole(t) - Len(md.time)
        S(v) == [i \in 1..n |-> v]
    IN  [c EXCEPT
           !.mission_time = t,
           !.mission_data =
               IF n > 0
               THEN [md EXCEPT !.time     = @ \o S(t),
                               !.altitude = @ \o S(position.y),
                               !.speed    = @ \o S(Length(velocity)),
                               !.fuel     = @ \o S(fuel_mass),
                               !.range    = @ \o S(total_range)]
               ELSE md]

\* update_mission_data, the time and the samples: the aircraft stands as
\* constructed.
MissionDataClock(c, dt) ==
    LET t  == Plus(c.mission_time, dt)
        md == c.mission_data
    IN  [c EXCEPT
           !.mission_time = t,
           !.mission_data =
               IF Whole(t) > Len(md.time)
               THEN [md EXCEPT !.time     = Append(@, t),
                               !.altitude = Append(@, position.y),
                               !.speed    = Append(@, Length(velocity)),
                               !.fuel     = Append(@, fuel_mass),
                               !.range    = Append(@, total_range)]
               ELSE md]

\* MissionProfile.update, the time and the samples, while the mission runs.
ProfileDataClock(c, dt) ==
    LET t  == Plus(c.total_time, dt)
        pd == c.profile_data
    IN  [c EXCEPT
           !.total_time = t,
           !.profile_data =
               IF Whole(t) > Len(pd.altitude)
               THEN [altitude |-> Append(pd.altitude, position.y),
                     range    |-> Append(pd.range, total_range),
                     fuel     |-> Append(pd.fuel, fuel_mass),
                     segments |-> Append(pd.segments,
                         IF current_segment_index < NumSegments
                         THEN SegmentDefs[current_segment_index + 1].name
                         ELSE "COMPLETE")]
               ELSE pd]

\* The clocks after the frames run so far.
Clocks == IF call.fn = "update" THEN call.result ELSE NewClocks

\* FlightSimulator.update(dt): Aircraft.update, then MissionProfile.update,
\* as far as the clocks and the buffers go.
Frame ==
    \E ms \in FrameDts :
        /\ Clocks.frames < MaxFrames
        /\ Called("update", <<ms>>,
                  [ProfileDataClock(MissionDataClock(Clocks, Seconds(ms)),
                                    Seconds(ms))
                     EXCEPT !.frames = @ + 1,
                            !.slow   = @ \/ ms > 1000])

ClockSpec == Init /\ [][Frame]_vars

-----------------------------------------------------------------------------
(* Properties *)

\* |velocity|^2 in (cm/s)^2, for components within 2 * max_speed.
SpeedSquared ==
    velocity.x * velocity.x + velocity.y * velocity.y + velocity.z * velocity.z

\* The fields of the mission record and of the aircraft that a tick integrates.
flight == << position, velocity, rotation, fuel_mass, total_range,
             mission_time, mission_data, current_segment_index,
             mission_complete, total_time, total_distance, segments,
             profile_data >>

\* C1: at the end of every tick, initially and after a reset, the altitude is
\* between 10 m and the service ceiling.
C1_AltitudeWithinLimits ==
    position.y >= 1000 /\ position.y <= service_ceiling

\* A tick has ended at the service ceiling.
C1_Witness == ticks > 0 /\ position.y = service_ceiling

C3_FuelNeverGrows ==
    /\ [](fuel_mass >= 0)
    /\ [][KeyR \/ fuel_mass' <= fuel_mass]_vars

\* The fuel has run out.
C3_Witness == ticks > 0 /\ fuel_mass = 0

\* C4: an update that starts without fuel integrates its physics with throttle
\* 0 and thrust 0, whatever the keys.
C4_NoThrustWithoutFuel ==
    last.fuel <= 0 => last.throttle = 0 /\ last.thrust = 0

\* C5: the throttle is within [0, 1], at the end of a tick and in its physics.
C5_ThrottleInRange ==
    /\ throttle >= 0 /\ throttle <= 1000
    /\ last.throttle >= 0 /\ last.throttle <= 1000

\* Throttle-up was held at full throttle, and the tick ended at full throttle.
C5_Witness ==
    "LSHIFT" \in last.keys /\ last.throttle = 1000 /\ throttle = 1000

\* C6: the cursor is within 0..6, and a step other than a reset moves it one
\* forward if the current segment becomes completed and leaves it otherwise.
C6_CursorAdvancesByOne ==
    /\ [](current_segment_index \in 0..NumSegments)
    /\ [][KeyR \/
          current_segment_index' =
              IF /\ current_segment_index < NumSegments
                 /\ ~segments[current_segment_index + 1].completed
                 /\ segments'[current_segment_index + 1].completed
              THEN current_segment_index + 1
              ELSE current_segment_index]_vars

\* The cursor has passed the last segment.
C6_Witness == current_segment_index = NumSegments

\* C7: a step other than a reset leaves every completed segment completed.
C7_CompletedStaysCompleted ==
    [][KeyR \/ \A i \in 1..NumSegments :
                   segments[i].completed => segments'[i].completed]_vars

\* Ticks went on after the first segment completed.
C7_Witness ==
    /\ segments[1].completed
    /\ current_segment_index >= 3
    /\ ~mission_complete

\* C8: crashed stays true in every step other than a reset.
C8_CrashedUntilReset == [][crashed => KeyR \/ crashed']_vars

\* Crashed, and the pause key was pressed since.
C8_Witness == crashed /\ paused

\* C9: while crashed the velocity is zero, and no step other than a reset
\* changes the aircraft's flight state, the mission or the warning timer.
C9_CrashedIsFrozen ==
    /\ [](crashed => velocity = Vec(0, 0, 0))
    /\ [][crashed => KeyR \/ UNCHANGED << flight, warning_timer >>]_vars

\* Crashed in flight: above the altitude floor, by a building or a mountain.
C9_Witness == crashed /\ position.y > 1000 /\ warning_timer > 0

\* C10 as stated: while crashed the throttle is 0.
C10_ThrottleZeroWhenCrashed == crashed => throttle = 0

\* C10, amended: while crashed the throttle keeps the value it had when the
\* crash was found, in every step other than a reset.
C10_ThrottleKeptWhenCrashed ==
    [][crashed => KeyR \/ throttle' = throttle]_vars

\* Crashed at full throttle.
C10_Witness == crashed /\ throttle = 1000

\* C11: the warning timer is 0 whenever there is no collision warning, and a
\* tick whose collision check leaves the warning on adds the tick's dt to it.
C11_WarningTimer ==
    /\ [](~collision_warning => warning_timer = 0)
    /\ [][ticks' = ticks + 1 /\ collision_warning'
          => warning_timer' = warning_timer + last'.dt]_vars

\* The warning has been on for more than one tick, without a crash.
C11_Witness ==
    collision_warning /\ ~crashed /\ warning_timer > last.dt /\ last.dt > 0

\* Terrain clearances and building distances around the thresholds of
\* check_collisions, in cm: 3 m, 5 m, 10 m, 30 m, 50 m, 100 m and beyond.
Clearances == {300, 500, 501, 2999, 3000, 5000, 9999, 10000, 20000}

Distances == {0, 1000, 1001, 2999, 3000, 9999, 10000, Infinity}

\* Each clearance far from every building, each distance high above the
\* terrain, and both near at once.
Probes ==
    (Clearances \X {Infinity}) \cup ({20000} \X Distances)
    \cup {<<300, 0>>, <<501, 1000>>, <<500, 1001>>, <<5000, 5000>>,
          <<501, 1001>>, <<9999, 10000>>}

\* C12: a collision check with terrain clearance a and minimum building
\* distance b sets the warning to (a < 100 m or b < 100 m) whatever it was
\* before, and crashes, with the velocity zeroed, iff a <= 5 m or b <= 10 m.
C12_CollisionBands ==
    \A p \in Probes, w \in BOOLEAN :
        LET a  == p[1]
            b  == p[2]
            cs == [crashed |-> FALSE, warning_timer |-> warning_timer,
                   collision_warning |-> w]
            r  == check_collisions(Aircraft, cs, last.dt, position.y - a, b)
        IN  /\ r.cs.collision_warning = (a < 10000 \/ b < 10000)
            /\ r.cs.crashed = (a <= 500 \/ b <= 1000)
            /\ r.cs.crashed => r.ac.velocity = Vec(0, 0, 0)
            /\ ~r.cs.crashed => r.ac = Aircraft

\* A tick's collision check has warned in flight without a crash.
C12_Witness ==
    /\ ticks > 0 /\ collision_warning /\ ~crashed
    /\ velocity # Vec(0, 0, 0) /\ position.y > 1000

\* C13: reset_simulation applied to any reachable state gives the state right
\* after construction: position (0,500,0), velocity (0,0,100), attitude 0,
\* throttle 0.5, fuel 0.8 * fuel_capacity, total_range 0, mission_time 0, empty
\* sample buffers, cursor 0, mission_complete false, total_time 0, every
\* segment not completed with progress 0, and the three collision fields
\* cleared; and the reset step of the driver leaves exactly that state.
C13_ResetRestoresInitialState ==
    /\ [](/\ AircraftReset(Aircraft) = NewAircraft
          /\ MissionReset(Mission) = NewMission)
    /\ [][crashed /\ ~crashed'
          => /\ position' = Vec(0, 50000, 0)
             /\ velocity' = Vec(0, 0, 10000)
             /\ rotation' = Vec(0, 0, 0)
             /\ throttle' = 500
             /\ fuel_mass' = (fuel_capacity * 8) \div 10
             /\ total_range' = 0
             /\ mission_time' = 0
             /\ mission_data' = NoMissionData
             /\ profile_data' = NoProfileData
             /\ current_segment_index' = 0
             /\ ~mission_complete'
             /\ total_time' = 0
             /\ \A i \in 1..NumSegments :
                    ~segments'[i].completed /\ segments'[i].progress = 0
             /\ ~collision_warning'
             /\ warning_timer' = 0]_vars

\* A crash late in the mission, with samples recorded, range flown and a
\* segment completed: the state a reset has the most to undo in.
C13_Witness ==
    /\ crashed
    /\ current_segment_index >= 3
    /\ segments[1].completed
    /\ segments[3].progress > 0
    /\ total_range > 0
    /\ total_time > 0
    /\ warning_timer > 0
    /\ Len(mission_data.time) > 0
    /\ position # Vec(0, 50000, 0)

\* The step ends as update leaves it when the mission update returned m: the
\* mission fields are those of m, the aircraft and the collision fields those
\* of one collision check on the aircraft of m.
EndsChecked(m, dt) ==
    \E h \in TerrainHeights(m.ac.position),
       b \in BuildingDistances(m.ac.position) :
        /\ Aircraft' = check_collisions(m.ac, Collision, dt, h, b).ac
        /\ Collision' = check_collisions(m.ac, Collision, dt, h, b).cs
        /\ Mission' = m.ms

\* C14: in every tick that is neither paused nor crashed, Aircraft.update,
\* Mission.update and the collision check run once each, in that order, with
\* the same dt: the mission reads the position, velocity and range the aircraft
\* wrote in the same tick, the collision check the place the aircraft moved to,
\* and the throttle the mission writes is first used by the physics of the
\* next tick.
C14_UpdateOrder ==
    [][ticks' = ticks + 1
       => /\ EndsChecked(MissionUpdate(AircraftUpdate(Aircraft, last'.dt,
                                                      last'.keys),
                                       Mission, last'.dt), last'.dt)
          /\ mission_time' = mission_time + last'.dt
          /\ ~mission_complete
                => /\ total_time' = total_time + last'.dt
                   /\ total_distance' = total_range'
          /\ collision_warning' => warning_timer' = warning_timer + last'.dt
          /\ last'.throttle = Controlled(Aircraft, last'.dt, last'.keys).throttle
      ]_vars

\* After a tick in which the mission read the range the aircraft had just
\* written and then set a throttle other than the one the physics had used.
C14_Witness ==
    /\ ticks > 1
    /\ ~crashed
    /\ total_range > 0
    /\ total_distance = total_range
    /\ total_time = mission_time
    /\ throttle # last.throttle

\* C15 as stated: while WUTO is the current segment, a tick marks WUTO
\* completed if and only if the altitude is at least 100 m on that tick.
C15_CompletedIffAltitude ==
    [][ticks' = ticks + 1 /\ current_segment_index = 0
       => (segments'[1].completed <=> position'.y >= SegmentDefs[1].target_altitude)
      ]_vars

\* C15: while WUTO is the current segment, a tick marks WUTO completed if and
\* only if the 30 s warm-up was over before the tick and the altitude is at
\* least 100 m on that tick; a warm-up tick only adds dt to the progress.
C15_CompletedAfterWarmup ==
    [][ticks' = ticks + 1 /\ current_segment_index = 0
       => /\ segments'[1].completed
                <=> /\ segments[1].progress >= 30000
                    /\ position'.y >= SegmentDefs[1].target_altitude
          /\ segments'[1].progress
                = IF segments[1].progress < 30000
                  THEN segments[1].progress + last'.dt
                  ELSE segments[1].progress
      ]_vars

\* WUTO has just completed: warm-up over, altitude at least 100 m.
C15_Witness ==
    /\ current_segment_index = 1
    /\ segments[1].completed
    /\ segments[1].progress >= 30000
    /\ position.y >= SegmentDefs[1].target_altitude
    /\ ~segments[2].completed

\* C16 as stated: every tick that is neither paused nor crashed adds exactly dt
\* to the mission's total_time, also after the last segment has completed.
C16_TotalTimeEveryTick ==
    [][ticks' = ticks + 1 => total_time' = total_time + last'.dt]_vars

\* C16: a tick that is neither paused nor crashed adds exactly dt to total_time
\* when it starts with the mission not complete, whatever the segment (the tick
\* that completes the last segment included), and leaves total_time as it is
\* when it starts with the mission complete.
C16_TotalTimeWhileMissionRuns ==
    [][ticks' = ticks + 1
       => total_time' = IF mission_complete THEN total_time
                        ELSE total_time + last'.dt]_vars

\* A tick was integrated after the last segment completed: the aircraft's
\* clock went on, the mission's did not.
C16_Witness ==
    /\ mission_complete
    /\ current_segment_index = NumSegments
    /\ total_time > 0
    /\ mission_time > total_time

\* The frame time at 60 frames per second, in ms.
FrameTime == 16

\* Frame times and key combinations the control inputs are tried with: the
\* frame times of the ticks and the regular one; the keys of the ticks, each
\* pair of opposite keys, auto-level alone and with rate keys, and all keys.
ControlDts == DtSet \cup {FrameTime}

ControlKeys ==
    KeyChoices \cup
    { {"SPACE"}, {"w"}, {"s"}, {"w", "s"}, {"a", "d"}, {"q", "e"},
      {"LSHIFT", "LCTRL"}, {"s", "a", "SPACE"}, {"w", "d", "SPACE"},
      {"w", "s", "a", "d", "q", "e", "LSHIFT", "LCTRL", "SPACE"} }

C20_RollWithinLimits == Abs(rotation.z) <= 1047

\* The roll at the left limit, after the roll key was held.
C20_Witness == rotation.z = -1047 /\ "a" \in last.keys

\* C17: constructing an Aircraft with a configuration file that is missing,
\* is not JSON or is JSON that is not an object succeeds without raising and
\* gives the built-in data: mass 50000, wing_area 150, max_thrust 200000,
\* fuel_capacity 15000, fuel_flow_rate 2.0, fuel_mass 12000.
C17_BadConfigGivesDefaults ==
    call.fn = "Aircraft" /\ call.args.kind \in {"missing", "invalid", "not_object"}
        => /\ call.result.raised = "none"
           /\ call.result.self = Aircraft_init([kind |-> "none", data |-> << >>]).self
           /\ call.result.self.fuel_mass = 12000000

\* The denominators of the formula called: an argument that is one of them is
\* zero, or the bank angle is one where the tangent or the cosine in the
\* denominator is zero or without bound.
ZeroDenominator ==
    CASE call.fn = "calculate_specific_range" -> call.args[2] = "zero"
      [] call.fn = "calculate_specific_endurance" -> call.args[1] = "zero"
      [] call.fn = "calculate_specific_excess_power" -> call.args[3] = "zero"
      [] call.fn = "calculate_turn_radius" -> call.args[2] \in {0, 1571}
      [] call.fn = "calculate_turn_rate" ->
             call.args[1] = "zero" \/ call.args[2] = 1571
      [] call.fn = "calculate_load_factor" -> call.args[1] = 1571
      [] call.fn = "calculate_stall_speed" ->
             \E i \in 2..4 : call.args[i] = "zero"
      [] call.fn \in {"calculate_best_climb_speed", "calculate_best_range_speed",
                      "calculate_best_endurance_speed"} ->
             \E i \in 2..5 : call.args[i] = "zero"
      [] call.fn = "calculate_endurance" -> call.args[2] = "zero"
      [] OTHER -> FALSE

\* C18: every performance formula returns 0 or +infinity, and does not raise,
\* for an input that makes one of its denominators zero.
C18_SentinelOnZeroDenominator ==
    ZeroDenominator => call.result \in {"zero", "inf"}

\* C21: after the control-input stage of an Aircraft.update in which W or S is
\* pressed, the pitch lies within [-pi/6, pi/6], whatever it was before the
\* call, the values written by the mission autopilot included.
C21_PitchKeyClampsPitch ==
    \A dt \in ControlDts, keys \in ControlKeys :
        "w" \in keys \/ "s" \in keys
            => Abs(ApplyKeys(FuelCutoff(Aircraft), dt, keys).rotation.x) <= 524

\* C22: while the simulation is paused nothing changes in the core state:
\* the aircraft, the mission (cursor, segments, total_time, samples) and the
\* collision fields stay as they are in every step from a paused state, the
\* step that toggles the pause off included, except for a reset.
C22_PausedChangesNothing ==
    [][paused /\ ~(crashed /\ ~crashed')
       => /\ Aircraft' = Aircraft
          /\ Mission' = Mission
          /\ Collision' = Collision]_vars

\* Paused in mid-flight, with ticks still to come and no crash: the update
\* would integrate if the pause did not stop it.
C22_Witness ==
    /\ paused
    /\ ~crashed
    /\ ticks > 0
    /\ ticks < MaxTicks
    /\ ~mission_complete

\* C23: at every tick boundary segment i is completed if and only if it lies
\* before the cursor (the segments complete in the order WUTO, CLIMB, CRUISE,
\* TURN, DESCENT, LANDING, none skipped), and mission_complete is true if and
\* only if the cursor equals the number of segments.
C23_CompletedBelowCursor ==
    /\ current_segment_index \in 0..NumSegments
    /\ \A i \in 1..NumSegments :
           segments[i].completed <=> i <= current_segment_index
    /\ mission_complete <=> current_segment_index = NumSegments

\* The cursor in mid-mission: TURN completed, DESCENT current.
C23_Witness ==
    /\ current_segment_index = 4
    /\ segments[4].completed
    /\ ~segments[5].completed
    /\ ~mission_complete

\* C24: on a mission tick with WUTO current, a progress timer below 30 s at the
\* start of the tick gives throttle 0.3, the timer grown by dt and no
\* completion whatever the altitude; otherwise throttle 1.0, the timer as it
\* was, and completion on that tick exactly when the altitude is at least
\* 100 m.
C24_WarmupThenTakeoff ==
    [][ticks' = ticks + 1 /\ current_segment_index = 0
       => IF segments[1].progress < 30000
          THEN /\ throttle' = 300
               /\ segments'[1].progress = segments[1].progress + last'.dt
               /\ ~segments'[1].completed
               /\ current_segment_index' = 0
          ELSE /\ throttle' = 1000
               /\ segments'[1].progress = segments[1].progress
               /\ segments'[1].completed <=> position'.y >= 10000
               /\ current_segment_index' = IF position'.y >= 10000 THEN 1 ELSE 0
      ]_vars

\* The take-off tick: warm-up over, altitude at least 100 m, WUTO completed
\* with the throttle at 1.0.
C24_Witness ==
    /\ current_segment_index = 1
    /\ mission_data.phase = "WUTO"
    /\ segments[1].completed
    /\ segments[1].progress >= 30000
    /\ throttle = 1000
    /\ position.y >= 10000

\* The pitch p moved by the step rate toward the pitch desired: up when
\* below it, down when above it, as it is when equal to it.
Toward(p, desired, rate) ==
    IF p < desired THEN p + rate ELSE IF p > desired THEN p - rate ELSE p

\* C25: on a mission tick with CLIMB current, an altitude of at least 5000 m
\* completes the segment and sets the pitch to exactly 0; below 5000 m the
\* segment is not completed and the pitch changes by exactly 0.5 dt toward the
\* desired pitch min(0.3, (5000 - altitude) / 1000), staying as it is when
\* equal to it.
C25_ClimbPitch ==
    [][ticks' = ticks + 1 /\ current_segment_index = 1
       => IF position'.y >= 500000
          THEN /\ segments'[2].completed
               /\ rotation'.x = 0
          ELSE /\ ~segments'[2].completed
               /\ rotation'.x =
                      Toward(Controlled(Aircraft, last'.dt, last'.keys).rotation.x,
                             Min(300, TDiv(500000 - position'.y, 100)),
                             last'.dt \div 2)
      ]_vars

\* After a climb tick below 5000 m: the pitch has been raised from level.
C25_Witness ==
    /\ current_segment_index = 1
    /\ mission_data.phase = "CLIMB"
    /\ position.y < 500000
    /\ rotation.x > 0
    /\ ~segments[2].completed

\* Speeds (cm/s) and throttles the cruise policy is tried with: on both sides
\* of the 5 m/s dead band around the target of 200 m/s and of the limits.
CruiseSpeeds == {15000, 19499, 19500, 20000, 20500, 20501, 25000}

CruiseThrottles == {0, 100, 300, 600, 1000}

\* The throttle the claim gives for the throttle old and the speed read.
CruiseThrottle(old, speed) ==
    IF Abs(20000 - speed) > 500
    THEN Max(300, Min(1000, old + TDiv(20000 - speed, 10)))
    ELSE old

\* C26: on a mission tick with CRUISE current, with speed_error =
\* target_speed - current_speed: beyond 5 m/s of error the new throttle is
\* clamp(old + 0.01 * speed_error, 0.3, 1.0), within 5 m/s the throttle is
\* left as it is, also below 0.3; for target 200 and speed 150 the new
\* throttle is min(1.0, old + 0.5).
C26_CruiseThrottle ==
    /\ [](\A s \in CruiseSpeeds, t \in CruiseThrottles :
            LET r == execute_cruise([Aircraft EXCEPT !.velocity = Vec(0, 0, s),
                                                     !.throttle = t],
                                    segments[3], SegmentDefs[3], last.dt)
            IN  /\ r.ac.throttle = CruiseThrottle(t, s)
                /\ s = 15000 => r.ac.throttle = Min(1000, t + 500)
                /\ Abs(20000 - s) <= 500 => r.ac.throttle = t)
    /\ [][ticks' = ticks + 1 /\ current_segment_index = 2 /\ ~crashed'
          => throttle' = CruiseThrottle(
                 Controlled(Aircraft, last'.dt, last'.keys).throttle,
                 Length(velocity'))]_vars

\* After a cruise tick that found the speed within 5 m/s of the target and
\* left the throttle alone.
C26_Witness ==
    /\ current_segment_index = 2
    /\ mission_data.phase = "CRUISE"
    /\ ~crashed
    /\ Abs(20000 - Length(velocity)) <= 500
    /\ throttle = last.throttle

\* C27: on a mission tick with CRUISE current the pitch is set to exactly
\* (target_altitude - altitude) * 0.001, whatever it was and with no clamp to
\* the manual pitch range, and the segment is completed on that tick exactly
\* when the total_range of the aircraft, counted from the start of the
\* mission, is at least 200000 m.
C27_CruisePitchAndRange ==
    [][ticks' = ticks + 1 /\ current_segment_index = 2
       => /\ rotation'.x = TDiv(500000 - position'.y, 100)
          /\ segments'[3].completed <=> total_range' >= 20000000
          /\ segments'[3].progress = total_range'
      ]_vars

\* After a cruise tick far below the target altitude: the pitch set is beyond
\* pi/6, and the range shown as progress includes what was flown before.
C27_Witness ==
    /\ current_segment_index = 2
    /\ mission_data.phase = "CRUISE"
    /\ rotation.x > 524
    /\ segments[3].progress = total_range
    /\ total_range > 0

\* The segment-local time of TURN: the sum of dt over the ticks with TURN
\* current (no turn_time attribute before the first of them).
TurnTime == IF segments[4].turn_time = -1 THEN 0 ELSE segments[4].turn_time

\* C28: each tick with TURN current adds dt to the segment-local time, and
\* TURN completes on the first tick at which that time reaches 120 s,
\* whatever the aircraft does; so while TURN is current the time is below
\* 120 s (at most ceil(120 / dt) ticks at a constant dt), and once TURN is
\* current it eventually completes unless the simulation is paused, crashes or
\* runs out of ticks.
C28_TurnCompletesOnTime ==
    /\ [][ticks' = ticks + 1 /\ current_segment_index = 3
          => /\ last'.dt > 0
             /\ segments'[4].turn_time = TurnTime + last'.dt
             /\ segments'[4].completed <=> TurnTime + last'.dt >= 120000]_vars
    /\ [](current_segment_index = 3 => TurnTime < 120000)
    /\ (current_segment_index = 3)
          ~> (segments[4].completed \/ paused \/ crashed \/ ticks = MaxTicks)

\* TURN completed by four ticks of 30 s: the time reached 120 s on the fourth.
C28_Witness ==
    /\ current_segment_index = 4
    /\ mission_data.phase = "TURN"
    /\ segments[4].completed
    /\ segments[4].turn_time = 120000

\* C29: at the end of every tick on which TURN is the current segment the
\* roll is the 30 degree bank (524 mrad) if the turn has not completed on
\* that tick, whatever roll keys were held, and 0 if it has.
C29_TurnHoldsBank ==
    [][ticks' = ticks + 1 /\ current_segment_index = 3
          => rotation'.z = IF segments'[4].completed THEN 0 ELSE 524]_vars

C29_Witness ==
    /\ current_segment_index = 3
    /\ mission_data.phase = "TURN"
    /\ ~segments[4].completed
    /\ last.keys \cap {"a", "d"} # {}
    /\ rotation.z = 524

\* C30: on a mission tick with DESCENT current and the altitude above 500 m,
\* the pitch moves by 0.3 dt toward the desired pitch
\* -min(0.2, (altitude - 500) / 2000) whenever it differs from it, down when
\* above it and up when below it, and the throttle becomes
\* max(0.2, throttle - 0.3 dt).
C30_DescentPitchAndThrottle ==
    [][ticks' = ticks + 1 /\ current_segment_index = 4 /\ position'.y > 50000
       => /\ rotation'.x =
                 Toward(Controlled(Aircraft, last'.dt, last'.keys).rotation.x,
                        -Min(200, TDiv(position'.y - 50000, 200)),
                        (3 * last'.dt) \div 10)
          /\ throttle' =
                 Max(200, Controlled(Aircraft, last'.dt, last'.keys).throttle
                            - (3 * last'.dt) \div 10)
      ]_vars

\* C31: on a mission tick with LANDING current, an altitude of at most 10 m
\* completes the segment, sets the throttle to 0 and the velocity to
\* (0, 0, 0), and the same update marks the mission complete; above 10 m the
\* segment is not completed and the pitch is set to -0.1.
C31_LandingTouchdown ==
    [][ticks' = ticks + 1 /\ current_segment_index = 5
       => IF position'.y <= 1000
          THEN /\ segments'[6].completed
               /\ throttle' = 0
               /\ velocity' = Vec(0, 0, 0)
               /\ mission_complete'
               /\ current_segment_index' = NumSegments
          ELSE /\ ~segments'[6].completed
               /\ ~mission_complete'
               /\ current_segment_index' = 5
               /\ rotation'.x = -100
      ]_vars

\* After the touchdown tick: the mission is complete and the aircraft stands
\* still without having crashed.
C31_Witness ==
    /\ mission_complete
    /\ segments[6].completed
    /\ mission_data.phase = "COMPLETE"
    /\ ~crashed
    /\ velocity = Vec(0, 0, 0)
    /\ throttle = 0

\* The samples in the history and in the profile buffer.
HistoryCount == Len(Clocks.mission_data.time)

ProfileCount == Len(Clocks.profile_data.altitude)

\* The parallel lists of each buffer have one length.
BuffersAligned ==
    /\ \A k \in {"altitude", "speed", "fuel", "range"} :
           Len(Clocks.mission_data[k]) = HistoryCount
    /\ \A k \in {"range", "fuel", "segments"} :
           Len(Clocks.profile_data[k]) = ProfileCount

\* C32, as stated: each update appends at most one sample, the parallel lists
\* of a buffer have equal length, the samples never exceed the whole seconds
\* of the component's time, and with every dt <= 1 s the samples equal the
\* whole seconds after each update.
C32_SamplesEqualWholeSeconds ==
    /\ BuffersAligned
    /\ HistoryCount <= Whole(Clocks.mission_time)
    /\ ProfileCount <= Whole(Clocks.total_time)
    /\ ~Clocks.slow => /\ HistoryCount = Whole(Clocks.mission_time)
                       /\ ProfileCount = Whole(Clocks.total_time)

\* C32, amended: each update appends at most one sample, the parallel lists
\* of a buffer have equal length, the samples never exceed the whole seconds
\* of the component's time, and with every dt <= 1 s the samples are the
\* whole seconds or one less.
C32_SamplesWithinOneOfWholeSeconds ==
    /\ [][call'.fn = "update"
             => /\ Len(call'.result.mission_data.time) <= HistoryCount + 1
                /\ Len(call'.result.profile_data.altitude) <= ProfileCount + 1
         ]_vars
    /\ [](/\ BuffersAligned
          /\ HistoryCount <= Whole(Clocks.mission_time)
          /\ ProfileCount <= Whole(Clocks.total_time)
          /\ ~Clocks.slow => /\ Whole(Clocks.mission_time) - HistoryCount <= 1
                             /\ Whole(Clocks.total_time) - ProfileCount <= 1)

\* Frames of at most a second after which the time is two whole seconds and
\* one sample has been taken.
C32_Witness ==
    /\ call.fn = "update"
    /\ ~Clocks.slow
    /\ Whole(Clocks.mission_time) = 2
    /\ HistoryCount = 1
    /\ ProfileCount = 1

\* C33: in every physics step the lift coefficient CL0 + CL_alpha * alpha
\* that enters the forces lies within [-1.5, 1.5], where it is used for the
\* lift and where it is used for the induced drag CD0 + K * CL^2.
C33_LiftCoefficientClamped ==
    [][ticks' = ticks + 1
          /\ Length(Controlled(Aircraft, last'.dt, last'.keys).velocity) >= 10
       => /\ Abs(LiftCL(Alpha(Controlled(Aircraft, last'.dt, last'.keys))))
                <= 1500
          /\ Abs(DragCL(Alpha(Controlled(Aircraft, last'.dt, last'.keys))))
                <= 1500
      ]_vars

\* C34: a reset is applied only while crashed.  A step from a state that is
\* not crashed, other than an integrated tick, changes nothing of the
\* aircraft, the mission and the collision flags: the R key there does
\* nothing.
C34_ResetOnlyWhenCrashed ==
    [][~crashed /\ ticks' # ticks + 1
          => /\ Aircraft' = Aircraft
             /\ Mission' = Mission
             /\ Collision' = Collision]_vars

\* A flight that has not crashed and that a reset would change in the
\* aircraft, the mission and the collision flags.
C34_Witness ==
    /\ ~crashed
    /\ ticks > 0
    /\ Aircraft # AircraftReset(Aircraft)
    /\ Mission # MissionReset(Mission)
    /\ Collision # NewCollision

\* C35: the TURN timer does not survive a reset.  The reset leaves every
\* segment without a turn_time; as long as TURN has not been entered in the
\* current run its turn_time is unset; and the first TURN tick of a run starts
\* it from zero, so that TURN completes on it only if that tick alone lasts
\* 120 s.
C35_TurnTimerClearedByReset ==
    /\ [][crashed /\ ~crashed'
             => /\ current_segment_index' = 0
                /\ \A i \in 1..NumSegments :
                       /\ segments'[i].turn_time = -1
                       /\ ~segments'[i].completed]_vars
    /\ [](current_segment_index < 3 => segments[4].turn_time = -1)
    /\ [][ticks' = ticks + 1 /\ current_segment_index = 3
                             /\ segments[4].turn_time = -1
             => /\ segments'[4].turn_time = last'.dt
                /\ segments'[4].completed <=> last'.dt >= 120000]_vars

\* A crash with part of the TURN time accumulated: the reset comes next.
C35_Witness ==
    /\ crashed
    /\ segments[4].turn_time > 0
    /\ segments[4].turn_time < 120000
    /\ ~segments[4].completed

\* C36: in every reachable state a crash comes with the collision warning:
\* crashed implies collision_warning; and the reset clears the two together.
C36_CrashedImpliesWarning ==
    /\ [](crashed => collision_warning)
    /\ [][crashed /\ ~crashed' => ~collision_warning']_vars

\* A crash on the first tick of a warning: the tick before had none.
C36_Witness ==
    /\ crashed
    /\ collision_warning
    /\ warning_timer = last.dt

\* C37: once the mission is complete, a tick without keys that starts with
\* the aircraft standing (velocity (0, 0, 0), throttle 0) ends with it
\* standing at the same place, and the tick that completes the mission ends
\* with it standing: gravity does not move the landed aircraft.
C37_LandedAircraftStays ==
    /\ [][ticks' = ticks + 1 /\ mission_complete /\ last'.keys = {}
             /\ velocity = Vec(0, 0, 0) /\ throttle = 0
          => /\ velocity' = Vec(0, 0, 0)
             /\ throttle' = 0
             /\ position' = position]_vars
    /\ [][~mission_complete /\ mission_complete'
          => velocity' = Vec(0, 0, 0) /\ throttle' = 0]_vars

\* After a tick without keys that followed the completion: the aircraft's
\* clock has run on past the mission's.
C37_Witness ==
    /\ mission_complete
    /\ ~crashed
    /\ mission_time > total_time
    /\ last.keys = {}
    /\ velocity = Vec(0, 0, 0)
    /\ throttle = 0

\* The names of the six segments.
SegmentNames == {SegmentDefs[i].name : i \in 1..NumSegments}

\* C38: every segment name in the profile buffer is one of the six segment
\* names, never COMPLETE, and a step that records a sample appends the name
\* of the segment that was executed on that tick.
C38_RecordedSegmentWasExecuted ==
    /\ [](\A i \in 1..Len(profile_data.segments) :
              profile_data.segments[i] \in SegmentNames)
    /\ [][Len(profile_data'.segments) > Len(profile_data.segments)
          => /\ ticks' = ticks + 1
             /\ current_segment_index < NumSegments
             /\ profile_data'.segments =
                    Append(profile_data.segments,
                           SegmentDefs[current_segment_index + 1].name)]_vars

\* A sample recorded on the tick that completed the mission: labelled
\* LANDING while the phase shown is COMPLETE.
C38_Witness ==
    /\ mission_complete
    /\ mission_data.phase = "COMPLETE"
    /\ Len(profile_data.segments) > 0
    /\ profile_data.segments[Len(profile_data.segments)] = "LANDING"

====
